---- MODULE Spec2Model ----
(***************************************************************************)
(* x86_64 architecture bring-up of the kernel                              *)
(* (kernel/src/arch/x86_64/init/mod.rs): kernel_main, early_setup_arch,    *)
(* setup_arch, setup_arch_post and set_current_core_tss.                   *)
(*                                                                         *)
(* A 64-bit value is a tuple of four 16-bit limbs, least significant       *)
(* first, so that the casts of the code (as u16, as u32, & 0xFFFF_FFFF)    *)
(* keep their width.  Every core has a program position pc, the locals of  *)
(* the function it executes, its descriptor-table registers, its task      *)
(* register and its Task-Segment.  trace[c] is the history of the calls    *)
(* core c made to code outside this file, with what they returned.         *)
(***************************************************************************)
EXTENDS Integers, Sequences, FiniteSets, TLC

\* Number of cores brought up.
NumCores == 2

\* 2^16: the width of DescriptorTablePointer.limit and of the `as u16` cast.
U16Mod == 65536

Cores == 1..NumCores

\* The core the bootloader starts: the lowest-numbered one.
BSP == CHOOSE c \in Cores : \A d \in Cores : c <= d

(***************************************************************************)
(* 64-bit values as limbs                                                  *)
(***************************************************************************)
Zero64 == <<0, 0, 0, 0>>

\* x as u16
as_u16(x) == x[1]

\* x as u32 (two limbs)
as_u32(x) == <<x[1], x[2]>>

RECURSIVE BitAnd(_, _)
BitAnd(a, b) ==
  IF a = 0 \/ b = 0 THEN 0
  ELSE (a % 2) * (b % 2) + 2 * BitAnd(a \div 2, b \div 2)

\* x & y on 64-bit values
and_u64(x, y) == [i \in 1..4 |-> BitAnd(x[i], y[i])]

\* The literal 0xFFFF_FFFF of kernel_main, as a 64-bit value.
MAGIC_MASK == <<65535, 65535, 0, 0>>

\* The mask written as 0xFFFF: only 16 bits of the magic survive.
mb2_magic_arg_mask16(mb2_magic) ==
  as_u32(and_u64(mb2_magic, <<65535, 0, 0, 0>>))

\* (mb2_magic & 0xFFFF_FFFF) as u32
mb2_magic_arg(mb2_magic) == as_u32(and_u64(mb2_magic, MAGIC_MASK))

\* n + 1 for a 16-bit n, as a 64-bit value (never overflows 64 bits).
Succ64(n) == <<(n + 1) % U16Mod, (n + 1) \div U16Mod, 0, 0>>

(***************************************************************************)
(* Addresses.  The tables sit at the addresses of the extern statics       *)
(* GDT_Table and IDT_Table; a virtual address is the tagged physical one.  *)
(***************************************************************************)
GDT_Table == "GDT_Table"
IDT_Table == "IDT_Table"

None == <<>>
Some(v) == <<v>>

\* VirtAddr that the memory manager maps a physical address to.
VirtOf(p) == <<"virt", p>>

\* VirtAddr::default / the null base of DescriptorTablePointer::default()
NullVirt == <<"virt", "null">>

\* MMArch::phys_2_virt(PhysAddr::new(p)): Option<VirtAddr>, outcome unknown here.
phys_2_virt(p) == {None, Some(VirtOf(p))}

\* unwrap_or_default in place of unwrap: a None goes on as the null address.
unwrap_panics_never(opt) == FALSE

\* Option::unwrap panics on None.
unwrap_panics(opt) == opt = None

\* The value unwrap yields.
unwrap(opt) == IF opt = None THEN NullVirt ELSE opt[1]

UnwrapNoneMsg == "called Option::unwrap() on a None value"
OverflowMsg == "attempt to subtract with overflow"

\* DescriptorTablePointer::<usize>::default()
DefaultDtp == [base |-> NullVirt, limit |-> 0]

(***************************************************************************)
(* Inputs                                                                  *)
(***************************************************************************)
InfoVals == {<<0, 0, 0, 0>>, <<4096, 16, 1, 32768>>}

\* 0x36d76289 is the multiboot2 magic; the others differ in the high half.
MagicVals == {<<25225, 14039, 0, 0>>, <<25225, 14039, 1, 0>>,
              <<25225, 14039, 65535, 65535>>, <<0, 0, 7, 0>>}

\* byte sizes: 0, 1, 128, 65535, 65536, 65536+128, 2^48+8
GdtSizeVals == {<<0, 0, 0, 0>>, <<1, 0, 0, 0>>, <<128, 0, 0, 0>>,
                <<65535, 0, 0, 0>>, <<0, 1, 0, 0>>, <<128, 1, 0, 0>>,
                <<8, 0, 0, 1>>}

IdtSizeVals == {<<0, 0, 0, 0>>, <<4096, 0, 0, 0>>, <<0, 1, 0, 0>>,
                <<4096, 0, 2, 0>>}

BootParameters ==
  [mb2_info : InfoVals, mb2_magic : MagicVals,
   bsp_gdt_size : GdtSizeVals, bsp_idt_size : IdtSizeVals]

\* The parameters every core receives when several cores are brought up.
SmpBootParameters ==
  [mb2_info |-> <<4096, 16, 1, 32768>>, mb2_magic |-> <<25225, 14039, 0, 0>>,
   bsp_gdt_size |-> <<128, 0, 0, 0>>, bsp_idt_size |-> <<4096, 0, 0, 0>>]

\* Values found at head_stack_start.
StackVals == {<<32768, 16, 65535, 65535>>, <<0, 0, 0, 0>>}

\* The stack the bootstrap of core c stores at head_stack_start.
SmpStack(c) == <<32768, c, 65535, 65535>>

\* Field values a Task-Segment holds before bring-up.
TssInitVals == {Zero64, <<57005, 0, 0, 0>>}

\* x86 TaskStateSegment: rsp[3], ist[7]
NewTss(v) == [rsp |-> <<v, v, v>>, ist |-> <<v, v, v, v, v, v, v>>]

VARIABLES
  params,            \* BootParameters the bootstrap passes to kernel_main
  overflow_checks,   \* whether the build panics on arithmetic overflow
  head_stack_start,  \* per core: the u64 stored at head_stack_start
  pc,                \* per core: program position
  gdt_vaddr,         \* per core: local of kernel_main
  idt_vaddr,         \* per core: local of kernel_main
  gdtp,              \* per core: local of kernel_main (None until declared)
  idtp,              \* per core: local of kernel_main (None until built)
  stack_start,       \* per core: local of early_setup_arch
  frame,             \* per core: arguments and local of set_current_core_tss
  gdtr,              \* per core: GDT register (None: not loaded by this code)
  idtr,              \* per core: IDT register
  tr,                \* per core: task register (None, or the owner of the Task-Segment loaded)
  tss,               \* registry: core -> Task-Segment
  diag,              \* per core: panic message of the halt, "" if none
  trace              \* per core: calls made, in order

vars == <<params, overflow_checks, head_stack_start, pc, gdt_vaddr, idt_vaddr,
          gdtp, idtp, stack_start, frame, gdtr, idtr, tr, tss, diag, trace>>

InitCommon ==
  /\ gdt_vaddr = [c \in Cores |-> None]
  /\ idt_vaddr = [c \in Cores |-> None]
  /\ gdtp = [c \in Cores |-> None]
  /\ idtp = [c \in Cores |-> None]
  /\ stack_start = [c \in Cores |-> None]
  /\ frame = [c \in Cores |-> None]
  /\ gdtr = [c \in Cores |-> None]
  /\ idtr = [c \in Cores |-> None]
  /\ tr = [c \in Cores |-> None]
  /\ diag = [c \in Cores |-> ""]
  /\ trace = [c \in Cores |-> <<>>]

\* Only the bootstrap core is started; any BootParameters.
InitBSP ==
  /\ params \in BootParameters
  /\ overflow_checks \in BOOLEAN
  /\ \E s \in StackVals : head_stack_start = [c \in Cores |-> s]
  /\ pc = [c \in Cores |-> IF c = BSP THEN "entry" ELSE "parked"]
  /\ \E v \in TssInitVals : tss = [c \in Cores |-> NewTss(v)]
  /\ InitCommon

\* Every core is started, each with its own stack.
InitSMP ==
  /\ params = SmpBootParameters
  /\ overflow_checks = TRUE
  /\ head_stack_start = [c \in Cores |-> SmpStack(c)]
  /\ pc = [c \in Cores |-> "entry"]
  /\ tss = [c \in Cores |-> NewTss(Zero64)]
  /\ InitCommon

Init == InitBSP \/ InitSMP

(***************************************************************************)
(* Control flow                                                            *)
(***************************************************************************)
Index(body, l) == CHOOSE i \in 1..Len(body) : body[i] = l

\* The statement after l in body.
Then(body, l) == body[Index(body, l) + 1]

\* The boot-info parse moved above the IDT load.
kernel_main_body_parse_first ==
  <<"k_gdt_vaddr", "k_idt_vaddr", "k_gdtp", "k_idtp", "k_lgdt",
    "k_multiboot2_init", "k_lidt", "k_start_kernel">>

\* Each table translated and loaded in turn: the GDT is loaded before the IDT is translated.
kernel_main_body_table_by_table ==
  <<"k_gdt_vaddr", "k_gdtp", "k_lgdt", "k_idt_vaddr", "k_idtp", "k_lidt",
    "k_multiboot2_init", "k_start_kernel">>

\* Statements of kernel_main, in program order.
kernel_main_body ==
  <<"k_gdt_vaddr", "k_idt_vaddr", "k_gdtp", "k_idtp", "k_lgdt", "k_lidt",
    "k_multiboot2_init", "k_start_kernel">>

\* Trap installation moved above the load of the task register.
early_setup_arch_body_trap_before_tr ==
  <<"e_stack_start", "e_gdt_vaddr", "e_idt_vaddr", "e_set_current_core_tss",
    "e_arch_trap_init", "e_load_tr", "e_return">>

\* Trap installation moved above the Task-Segment configuration.
early_setup_arch_body_trap_first ==
  <<"e_stack_start", "e_gdt_vaddr", "e_idt_vaddr", "e_arch_trap_init",
    "e_set_current_core_tss", "e_load_tr", "e_return">>

\* The Task-Segment configured above the two translations.
early_setup_arch_body_tss_first ==
  <<"e_stack_start", "e_set_current_core_tss", "e_gdt_vaddr", "e_idt_vaddr",
    "e_load_tr", "e_arch_trap_init", "e_return">>

\* Statements of early_setup_arch, in program order.
early_setup_arch_body ==
  <<"e_stack_start", "e_gdt_vaddr", "e_idt_vaddr", "e_set_current_core_tss",
    "e_load_tr", "e_arch_trap_init", "e_return">>

\* Statements of set_current_core_tss after current_tss(), in program order.
set_current_core_tss_body == <<"t_set_rsp", "t_set_ist", "t_return">>

\* The stage hooks generic startup calls, in order; "idle" is what follows them.
start_kernel_body ==
  <<"early_setup_arch", "setup_arch", "setup_arch_post", "idle">>

\* First statement of a stage hook.
HookEntry(h) ==
  CASE h = "early_setup_arch" -> early_setup_arch_body[1]
    [] h = "setup_arch" -> "s_return"
    [] h = "setup_arch_post" -> "p_hpet_init"
    [] OTHER -> "idle"

Goto(c, l) == pc' = [pc EXCEPT ![c] = l] /\ diag' = diag

\* A panic: the core halts with the message.
Halt(c, msg) ==
  /\ pc' = [pc EXCEPT ![c] = "halted"]
  /\ diag' = [diag EXCEPT ![c] = msg]

Log(c, op, arg, ret) ==
  trace' = [trace EXCEPT ![c] = Append(@, [op |-> op, arg |-> arg, ret |-> ret])]

\* The result ignored in place of expect: an Err goes on.
expect_panics_never(ret) == FALSE

\* Result::expect panics on Err.
expect_panics(ret) == ret = "Err"

OptName(opt) == IF opt = None THEN "None" ELSE "Some"

hw == <<gdtr, idtr, tr, tss>>
env == <<params, overflow_checks, head_stack_start>>
k_locals == <<gdt_vaddr, idt_vaddr, gdtp, idtp>>
e_locals == <<stack_start, frame>>

(***************************************************************************)
(* kernel_main                                                             *)
(***************************************************************************)
\* Entry from the assembly bootstrap; let mut gdtp = default().
kernel_main_entry(c) ==
  /\ pc[c] = "entry"
  /\ gdtp' = [gdtp EXCEPT ![c] = Some(DefaultDtp)]
  /\ Goto(c, kernel_main_body[1])
  /\ UNCHANGED <<env, hw, gdt_vaddr, idt_vaddr, idtp, e_locals, trace>>

\* let gdt_vaddr = MMArch::phys_2_virt(PhysAddr::new(&GDT_Table ..)).unwrap();
kernel_main_gdt_vaddr(c) ==
  /\ pc[c] = "k_gdt_vaddr"
  /\ \E r \in phys_2_virt(GDT_Table) :
       /\ Log(c, "phys_2_virt", <<GDT_Table>>, OptName(r))
       /\ IF unwrap_panics(r)
            THEN Halt(c, UnwrapNoneMsg) /\ UNCHANGED gdt_vaddr
            ELSE /\ gdt_vaddr' = [gdt_vaddr EXCEPT ![c] = Some(unwrap(r))]
                 /\ Goto(c, Then(kernel_main_body, "k_gdt_vaddr"))
  /\ UNCHANGED <<env, hw, idt_vaddr, gdtp, idtp, e_locals>>

\* let idt_vaddr = MMArch::phys_2_virt(PhysAddr::new(&IDT_Table ..)).unwrap();
kernel_main_idt_vaddr(c) ==
  /\ pc[c] = "k_idt_vaddr"
  /\ \E r \in phys_2_virt(IDT_Table) :
       /\ Log(c, "phys_2_virt", <<IDT_Table>>, OptName(r))
       /\ IF unwrap_panics(r)
            THEN Halt(c, UnwrapNoneMsg) /\ UNCHANGED idt_vaddr
            ELSE /\ idt_vaddr' = [idt_vaddr EXCEPT ![c] = Some(unwrap(r))]
                 /\ Goto(c, Then(kernel_main_body, "k_idt_vaddr"))
  /\ UNCHANGED <<env, hw, gdt_vaddr, gdtp, idtp, e_locals>>

\* size as u16 - 1 overflows exactly when the low 16 bits of size are 0.
limit_overflows(size) == as_u16(size) = 0

\* The limit set to the size, the decrement forgotten.
limit_of_size(size) == as_u16(size)

\* size as u16 - 1, wrapping.
limit_of(size) == (as_u16(size) + U16Mod - 1) % U16Mod

\* The limit added to the one gdtp holds: gdtp.limit += bsp_gdt_size as u16 - 1;
kernel_main_gdtp_accumulating(c) ==
  /\ pc[c] = "k_gdtp"
  /\ IF as_u16(params.bsp_gdt_size) = 0 /\ overflow_checks
       THEN Halt(c, OverflowMsg) /\ UNCHANGED gdtp
       ELSE /\ gdtp' = [gdtp EXCEPT ![c] =
                          Some([base |-> unwrap(gdt_vaddr[c]),
                                limit |-> (gdtp[c][1].limit
                                            + as_u16(params.bsp_gdt_size)
                                            + U16Mod - 1) % U16Mod])]
            /\ Goto(c, "k_idtp")
  /\ UNCHANGED <<env, hw, gdt_vaddr, idt_vaddr, idtp, e_locals, trace>>

\* gdtp.base = gdt_vaddr.data() ..; gdtp.limit = bsp_gdt_size as u16 - 1;
kernel_main_gdtp(c) ==
  /\ pc[c] = "k_gdtp"
  /\ IF limit_overflows(params.bsp_gdt_size) /\ overflow_checks
       THEN Halt(c, OverflowMsg) /\ UNCHANGED gdtp
       ELSE /\ gdtp' = [gdtp EXCEPT ![c] =
                          Some([base |-> unwrap(gdt_vaddr[c]),
                                limit |-> limit_of(params.bsp_gdt_size)])]
            /\ Goto(c, Then(kernel_main_body, "k_gdtp"))
  /\ UNCHANGED <<env, hw, gdt_vaddr, idt_vaddr, idtp, e_locals, trace>>

\* let idtp = DescriptorTablePointer { base: idt_vaddr.data() .., limit: bsp_idt_size as u16 - 1 };
kernel_main_idtp(c) ==
  /\ pc[c] = "k_idtp"
  /\ IF limit_overflows(params.bsp_idt_size) /\ overflow_checks
       THEN Halt(c, OverflowMsg) /\ UNCHANGED idtp
       ELSE /\ idtp' = [idtp EXCEPT ![c] =
                          Some([base |-> unwrap(idt_vaddr[c]),
                                limit |-> limit_of(params.bsp_idt_size)])]
            /\ Goto(c, Then(kernel_main_body, "k_idtp"))
  /\ UNCHANGED <<env, hw, gdt_vaddr, idt_vaddr, gdtp, e_locals, trace>>

\* x86::dtables::lgdt(&gdtp);
kernel_main_lgdt(c) ==
  /\ pc[c] = "k_lgdt"
  /\ gdtr' = [gdtr EXCEPT ![c] = gdtp[c]]
  /\ Log(c, "lgdt", gdtp[c], "")
  /\ Goto(c, Then(kernel_main_body, "k_lgdt"))
  /\ UNCHANGED <<env, idtr, tr, tss, k_locals, e_locals>>

\* x86::dtables::lidt(&idtp);
kernel_main_lidt(c) ==
  /\ pc[c] = "k_lidt"
  /\ idtr' = [idtr EXCEPT ![c] = idtp[c]]
  /\ Log(c, "lidt", idtp[c], "")
  /\ Goto(c, Then(kernel_main_body, "k_lidt"))
  /\ UNCHANGED <<env, gdtr, tr, tss, k_locals, e_locals>>

\* The result asserted: assert!(multiboot2_init(..)) halts on false.
kernel_main_multiboot2_init_asserted(c) ==
  /\ pc[c] = "k_multiboot2_init"
  /\ \E ret \in {"true", "false"} :
       /\ Log(c, "multiboot2_init",
              <<params.mb2_info, as_u32(and_u64(params.mb2_magic, MAGIC_MASK))>>,
              ret)
       /\ IF ret = "false"
            THEN Halt(c, "assertion failed: multiboot2_init")
            ELSE Goto(c, "k_start_kernel")
  /\ UNCHANGED <<env, hw, k_locals, e_locals>>

\* multiboot2_init(mb2_info, (mb2_magic & 0xFFFF_FFFF) as u32); result dropped.
kernel_main_multiboot2_init(c) ==
  /\ pc[c] = "k_multiboot2_init"
  /\ \E ret \in {"true", "false"} :
       Log(c, "multiboot2_init",
           <<params.mb2_info, mb2_magic_arg(params.mb2_magic)>>, ret)
  /\ Goto(c, Then(kernel_main_body, "k_multiboot2_init"))
  /\ UNCHANGED <<env, hw, k_locals, e_locals>>

\* start_kernel(): control passes to generic startup, which calls the hooks.
kernel_main_start_kernel(c) ==
  /\ pc[c] = "k_start_kernel"
  /\ Log(c, "start_kernel", <<>>, "")
  /\ Goto(c, HookEntry(start_kernel_body[1]))
  /\ UNCHANGED <<env, hw, k_locals, e_locals>>

kernel_main(c) ==
  \/ kernel_main_entry(c)
  \/ kernel_main_gdt_vaddr(c)
  \/ kernel_main_idt_vaddr(c)
  \/ kernel_main_gdtp(c)
  \/ kernel_main_idtp(c)
  \/ kernel_main_lgdt(c)
  \/ kernel_main_lidt(c)
  \/ kernel_main_multiboot2_init(c)
  \/ kernel_main_start_kernel(c)

(***************************************************************************)
(* Generic startup: a stage hook returned; on Ok the next one is called,   *)
(* an Err stops the boot.                                                  *)
(***************************************************************************)
Return(c, hook, ret) ==
  /\ Log(c, "return", <<hook>>, ret)
  /\ IF expect_panics(ret)
       THEN Halt(c, "hook failed")
       ELSE Goto(c, HookEntry(Then(start_kernel_body, hook)))

(***************************************************************************)
(* early_setup_arch and set_current_core_tss                               *)
(***************************************************************************)
\* let stack_start = unsafe { *(head_stack_start as *const u64) } as usize;
early_setup_arch_stack_start(c) ==
  /\ pc[c] = "e_stack_start"
  /\ stack_start' = [stack_start EXCEPT ![c] = Some(head_stack_start[c])]
  /\ Goto(c, Then(early_setup_arch_body, "e_stack_start"))
  /\ UNCHANGED <<env, hw, k_locals, frame, trace>>

\* let gdt_vaddr = MMArch::phys_2_virt(..GDT_Table..).unwrap(); only logged.
early_setup_arch_gdt_vaddr(c) ==
  /\ pc[c] = "e_gdt_vaddr"
  /\ \E r \in phys_2_virt(GDT_Table) :
       /\ Log(c, "phys_2_virt", <<GDT_Table>>, OptName(r))
       /\ IF unwrap_panics(r)
            THEN Halt(c, UnwrapNoneMsg)
            ELSE Goto(c, Then(early_setup_arch_body, "e_gdt_vaddr"))
  /\ UNCHANGED <<env, hw, k_locals, e_locals>>

\* let idt_vaddr = MMArch::phys_2_virt(..IDT_Table..).unwrap(); only logged.
early_setup_arch_idt_vaddr(c) ==
  /\ pc[c] = "e_idt_vaddr"
  /\ \E r \in phys_2_virt(IDT_Table) :
       /\ Log(c, "phys_2_virt", <<IDT_Table>>, OptName(r))
       /\ IF unwrap_panics(r)
            THEN Halt(c, UnwrapNoneMsg)
            ELSE Goto(c, Then(early_setup_arch_body, "e_idt_vaddr"))
  /\ UNCHANGED <<env, hw, k_locals, e_locals>>

\* TSSManager::current_tss(): the Task-Segment of the executing core.
current_tss(c) == c

\* The two arguments exchanged: set_current_core_tss(0, stack_start).
tss_arguments_swapped(s) == [stack_start |-> Zero64, ist0 |-> s]

\* The arguments early_setup_arch passes: set_current_core_tss(stack_start, 0).
tss_arguments(s) == [stack_start |-> s, ist0 |-> Zero64]

\* One Task-Segment for all: every core takes the segment of the boot core.
set_current_core_tss_call_shared(c) ==
  /\ pc[c] = "e_set_current_core_tss"
  /\ frame' = [frame EXCEPT ![c] =
                 Some([current_tss |-> BSP,
                       stack_start |-> stack_start[c][1], ist0 |-> Zero64])]
  /\ Goto(c, "t_set_rsp")
  /\ UNCHANGED <<env, hw, k_locals, stack_start, trace>>

\* set_current_core_tss(stack_start, 0); let current_tss = TSSManager::current_tss();
set_current_core_tss_call(c) ==
  /\ pc[c] = "e_set_current_core_tss"
  /\ LET a == tss_arguments(stack_start[c][1]) IN
       frame' = [frame EXCEPT ![c] =
                   Some([current_tss |-> current_tss(c),
                         stack_start |-> a.stack_start, ist0 |-> a.ist0])]
  /\ Goto(c, set_current_core_tss_body[1])
  /\ UNCHANGED <<env, hw, k_locals, stack_start, trace>>

\* current_tss.set_rsp(x86::Ring::Ring0, stack_start as u64);
set_current_core_tss_set_rsp(c) ==
  /\ pc[c] = "t_set_rsp"
  /\ LET f == frame[c][1] IN
       /\ tss' = [tss EXCEPT ![f.current_tss].rsp[1] = f.stack_start]
       /\ Log(c, "set_rsp", <<f.current_tss, 0, f.stack_start>>, "")
  /\ Goto(c, Then(set_current_core_tss_body, "t_set_rsp"))
  /\ UNCHANGED <<env, gdtr, idtr, tr, k_locals, e_locals>>

\* current_tss.set_ist(0, ist0 as u64);
set_current_core_tss_set_ist(c) ==
  /\ pc[c] = "t_set_ist"
  /\ LET f == frame[c][1] IN
       /\ tss' = [tss EXCEPT ![f.current_tss].ist[1] = f.ist0]
       /\ Log(c, "set_ist", <<f.current_tss, 0, f.ist0>>, "")
  /\ Goto(c, Then(set_current_core_tss_body, "t_set_ist"))
  /\ UNCHANGED <<env, gdtr, idtr, tr, k_locals, e_locals>>

\* set_current_core_tss returns to early_setup_arch.
set_current_core_tss_return(c) ==
  /\ pc[c] = "t_return"
  /\ frame' = [frame EXCEPT ![c] = None]
  /\ Goto(c, Then(early_setup_arch_body, "e_set_current_core_tss"))
  /\ UNCHANGED <<env, hw, k_locals, stack_start, trace>>

set_current_core_tss(c) ==
  \/ set_current_core_tss_call(c)
  \/ set_current_core_tss_set_rsp(c)
  \/ set_current_core_tss_set_ist(c)
  \/ set_current_core_tss_return(c)

\* unsafe { TSSManager::load_tr() }: the task register takes the core's own segment.
early_setup_arch_load_tr(c) ==
  /\ pc[c] = "e_load_tr"
  /\ tr' = [tr EXCEPT ![c] = Some(current_tss(c))]
  /\ Log(c, "load_tr", <<>>, "")
  /\ Goto(c, Then(early_setup_arch_body, "e_load_tr"))
  /\ UNCHANGED <<env, gdtr, idtr, tss, k_locals, e_locals>>

\* arch_trap_init().expect("arch_trap_init failed");
early_setup_arch_arch_trap_init(c) ==
  /\ pc[c] = "e_arch_trap_init"
  /\ \E ret \in {"Ok", "Err"} :
       /\ Log(c, "arch_trap_init", <<>>, ret)
       /\ IF expect_panics(ret)
            THEN Halt(c, "arch_trap_init failed")
            ELSE Goto(c, Then(early_setup_arch_body, "e_arch_trap_init"))
  /\ UNCHANGED <<env, hw, k_locals, e_locals>>

\* The value early_setup_arch returns: return Ok(());
early_setup_arch_result == "Ok"

\* return Ok(());
early_setup_arch_return(c) ==
  /\ pc[c] = "e_return"
  /\ stack_start' = [stack_start EXCEPT ![c] = None]
  /\ Return(c, "early_setup_arch", early_setup_arch_result)
  /\ UNCHANGED <<env, hw, k_locals, frame>>

early_setup_arch(c) ==
  \/ early_setup_arch_stack_start(c)
  \/ early_setup_arch_gdt_vaddr(c)
  \/ early_setup_arch_idt_vaddr(c)
  \/ early_setup_arch_load_tr(c)
  \/ early_setup_arch_arch_trap_init(c)
  \/ early_setup_arch_return(c)

(***************************************************************************)
(* setup_arch                                                              *)
(***************************************************************************)
\* setup_arch reporting a failure: return Err(SystemError::ENOSYS);
setup_arch_result_err == "Err"

\* The value setup_arch returns: return Ok(());
setup_arch_result == "Ok"

\* return Ok(());
setup_arch(c) ==
  /\ pc[c] = "s_return"
  /\ Return(c, "setup_arch", setup_arch_result)
  /\ UNCHANGED <<env, hw, k_locals, e_locals>>

(***************************************************************************)
(* setup_arch_post                                                         *)
(***************************************************************************)
\* The test inverted: if ret.is_err() { hpet_enable } else { init_acpi_pm_clocksource }
hpet_branch_inverted(ret) ==
  IF ret = "Ok" THEN "p_init_acpi_pm_clocksource" ELSE "p_hpet_enable"

\* The ACPI PM timer initialised whatever hpet_init returned.
hpet_branch_always_acpi(ret) == "p_init_acpi_pm_clocksource"

\* HPET discovery tried again when it failed.
hpet_branch_retry(ret) ==
  IF ret = "Ok" THEN "p_hpet_enable" ELSE "p_hpet_init"

\* if ret.is_ok() { hpet_enable } else { init_acpi_pm_clocksource }
hpet_branch(ret) ==
  IF ret = "Ok" THEN "p_hpet_enable" ELSE "p_init_acpi_pm_clocksource"

\* The TSC calibration left out: either branch goes on to the return.
after_clocksource_no_tsc == "p_return"

\* The statement after either branch of the if.
after_clocksource == "p_tsc_init"

\* let ret = hpet_init();
setup_arch_post_hpet_init(c) ==
  /\ pc[c] = "p_hpet_init"
  /\ \E ret \in {"Ok", "Err"} :
       /\ Log(c, "hpet_init", <<>>, ret)
       /\ Goto(c, hpet_branch(ret))
  /\ UNCHANGED <<env, hw, k_locals, e_locals>>

\* hpet_instance().hpet_enable().expect("hpet enable failed");
setup_arch_post_hpet_enable(c) ==
  /\ pc[c] = "p_hpet_enable"
  /\ \E ret \in {"Ok", "Err"} :
       /\ Log(c, "hpet_enable", <<>>, ret)
       /\ IF expect_panics(ret)
            THEN Halt(c, "hpet enable failed")
            ELSE Goto(c, after_clocksource)
  /\ UNCHANGED <<env, hw, k_locals, e_locals>>

\* init_acpi_pm_clocksource().expect("acpi_pm_timer inits failed");
setup_arch_post_init_acpi_pm_clocksource(c) ==
  /\ pc[c] = "p_init_acpi_pm_clocksource"
  /\ \E ret \in {"Ok", "Err"} :
       /\ Log(c, "init_acpi_pm_clocksource", <<>>, ret)
       /\ IF expect_panics(ret)
            THEN Halt(c, "acpi_pm_timer inits failed")
            ELSE Goto(c, after_clocksource)
  /\ UNCHANGED <<env, hw, k_locals, e_locals>>

\* TSCManager::init().expect("tsc init failed");
setup_arch_post_tsc_init(c) ==
  /\ pc[c] = "p_tsc_init"
  /\ \E ret \in {"Ok", "Err"} :
       /\ Log(c, "tsc_init", <<>>, ret)
       /\ IF expect_panics(ret)
            THEN Halt(c, "tsc init failed")
            ELSE Goto(c, "p_return")
  /\ UNCHANGED <<env, hw, k_locals, e_locals>>

\* The value setup_arch_post returns: return Ok(());
setup_arch_post_result == "Ok"

\* return Ok(());
setup_arch_post_return(c) ==
  /\ pc[c] = "p_return"
  /\ Return(c, "setup_arch_post", setup_arch_post_result)
  /\ UNCHANGED <<env, hw, k_locals, e_locals>>

setup_arch_post(c) ==
  \/ setup_arch_post_hpet_init(c)
  \/ setup_arch_post_hpet_enable(c)
  \/ setup_arch_post_init_acpi_pm_clocksource(c)
  \/ setup_arch_post_tsc_init(c)
  \/ setup_arch_post_return(c)

Next ==
  \E c \in Cores :
    \/ kernel_main(c)
    \/ early_setup_arch(c)
    \/ set_current_core_tss(c)
    \/ setup_arch(c)
    \/ setup_arch_post(c)

Spec == Init /\ [][Next]_vars

(***************************************************************************)
(* Reading the history                                                     *)
(***************************************************************************)
\* Core c called op.
Called(c, op) == \E i \in DOMAIN trace[c] : trace[c][i].op = op

\* Core c called op and it returned ret.
Got(c, op, ret) ==
  \E i \in DOMAIN trace[c] : trace[c][i].op = op /\ trace[c][i].ret = ret

\* Number of calls of op by core c.
Calls(c, op) == Cardinality({i \in DOMAIN trace[c] : trace[c][i].op = op})

\* Every call of b by core c has a call of a before it.
Before(c, a, b) ==
  \A j \in DOMAIN trace[c] :
    trace[c][j].op = b => \E i \in 1..(j - 1) : trace[c][i].op = a

\* Stage hook h returned Ok on core c.
Returned(c, h) ==
  \E i \in DOMAIN trace[c] :
    /\ trace[c][i].op = "return"
    /\ trace[c][i].arg = <<h>>
    /\ trace[c][i].ret = "Ok"

\* The i-th call of core c is a translation of p inside kernel_main.
KernelMainTranslation(c, i, p) ==
  /\ trace[c][i].op = "phys_2_virt"
  /\ trace[c][i].arg = <<p>>
  /\ \A j \in 1..(i - 1) : trace[c][j].op # "start_kernel"

\* kernel_main translated p on core c and got ret ("Some" or "None").
KernelMainTranslated(c, p, ret) ==
  \E i \in DOMAIN trace[c] :
    KernelMainTranslation(c, i, p) /\ trace[c][i].ret = ret

\* The operations that must not run once kernel_main has halted.
AfterTranslationOps ==
  {"lgdt", "lidt", "multiboot2_init", "start_kernel", "set_rsp", "set_ist",
   "load_tr", "arch_trap_init"}

(***************************************************************************)
(* C1: a descriptor table is in a register only if kernel_main got a       *)
(* virtual address for its physical base; when the translation of the GDT  *)
(* region fails the core is halted and none of lgdt, lidt,                 *)
(* multiboot2_init, start_kernel, the Task-Segment writes, load_tr and     *)
(* arch_trap_init has run or will run.                                     *)
(***************************************************************************)
C1_LoadOnlyTranslated ==
  \A c \in Cores :
    /\ gdtr[c] # None => KernelMainTranslated(c, GDT_Table, "Some")
    /\ idtr[c] # None => KernelMainTranslated(c, IDT_Table, "Some")
    /\ KernelMainTranslated(c, GDT_Table, "None") =>
         /\ pc[c] = "halted"
         /\ diag[c] # ""
         /\ \A op \in AfterTranslationOps : ~Called(c, op)
         /\ gdtr[c] = None /\ idtr[c] = None /\ tr[c] = None

\* One core halted on the failed GDT translation while another has both tables loaded.
C1_Witness ==
  \E c, d \in Cores :
    /\ KernelMainTranslated(c, GDT_Table, "None") /\ pc[c] = "halted"
    /\ gdtr[d] # None /\ idtr[d] # None

(***************************************************************************)
(* C2 as stated: every loaded pointer has limit + 1 = byte_size (all 64    *)
(* bits of it) and base = translate(physical base).                        *)
(***************************************************************************)
C2_LimitIsSizeMinusOne ==
  \A c \in Cores :
    /\ gdtr[c] # None =>
         /\ Succ64(gdtr[c][1].limit) = params.bsp_gdt_size
         /\ gdtr[c][1].base = VirtOf(GDT_Table)
    /\ idtr[c] # None =>
         /\ Succ64(idtr[c][1].limit) = params.bsp_idt_size
         /\ idtr[c][1].base = VirtOf(IDT_Table)

\* byte_size is in 1..65536.
FitsLimit(size) ==
  \/ size[1] # 0 /\ size[2] = 0 /\ size[3] = 0 /\ size[4] = 0
  \/ size = <<0, 1, 0, 0>>

\* limit + 1 = byte_size modulo 2^16, and exactly when byte_size is in 1..65536.
LimitMatches(limit, size) ==
  /\ limit \in 0..(U16Mod - 1)
  /\ (limit + 1) % U16Mod = size[1]
  /\ FitsLimit(size) <=> Succ64(limit) = size

(***************************************************************************)
(* C2 amended: every loaded pointer has base = translate(physical base)    *)
(* and a 16-bit limit with limit + 1 = byte_size modulo 2^16, so that      *)
(* limit = byte_size - 1 exactly when 1 <= byte_size <= 65536; a size      *)
(* whose low 16 bits are zero is loaded (limit 65535) only by a build      *)
(* without overflow checks.                                                *)
(***************************************************************************)
C2_LimitIsSizeMinusOneMod16 ==
  \A c \in Cores :
    /\ gdtr[c] # None =>
         /\ LimitMatches(gdtr[c][1].limit, params.bsp_gdt_size)
         /\ gdtr[c][1].base = VirtOf(GDT_Table)
         /\ params.bsp_gdt_size[1] = 0 => ~overflow_checks
    /\ idtr[c] # None =>
         /\ LimitMatches(idtr[c][1].limit, params.bsp_idt_size)
         /\ idtr[c][1].base = VirtOf(IDT_Table)
         /\ params.bsp_idt_size[1] = 0 => ~overflow_checks

\* Both tables loaded from sizes above 65536: 65536 + 128 and 2^32 + 4096.
C2_Witness ==
  \E c \in Cores :
    /\ gdtr[c] # None /\ idtr[c] # None
    /\ params.bsp_gdt_size = <<128, 1, 0, 0>>
    /\ params.bsp_idt_size = <<4096, 0, 2, 0>>

(***************************************************************************)
(* C3: on every core the GDT load comes before the IDT load, the IDT load  *)
(* before the multiboot2_init call and the return of multiboot2_init       *)
(* before the transfer to start_kernel; whenever multiboot2_init is about  *)
(* to be called or has been called both registers are loaded.              *)
(***************************************************************************)
C3_KernelMainOrder ==
  \A c \in Cores :
    /\ Before(c, "lgdt", "lidt")
    /\ Before(c, "lidt", "multiboot2_init")
    /\ Before(c, "multiboot2_init", "start_kernel")
    /\ (pc[c] = "k_multiboot2_init" \/ Called(c, "multiboot2_init")) =>
         gdtr[c] # None /\ idtr[c] # None
    /\ pc[c] = "k_start_kernel" => Called(c, "multiboot2_init")

\* A core that went through all four events.
C3_Witness ==
  \E c \in Cores :
    /\ Called(c, "lgdt") /\ Called(c, "lidt")
    /\ Called(c, "multiboot2_init") /\ Called(c, "start_kernel")

\* m mod 2^32, as the two low limbs.
Low32(m) == <<m[1], m[2]>>

(***************************************************************************)
(* C4: every call of multiboot2_init receives the info pointer unchanged   *)
(* and mb2_magic mod 2^32 as the magic; the high 32 bits do not appear.    *)
(***************************************************************************)
C4_MagicLow32 ==
  \A c \in Cores :
    \A i \in DOMAIN trace[c] :
      trace[c][i].op = "multiboot2_init" =>
        /\ trace[c][i].arg[1] = params.mb2_info
        /\ trace[c][i].arg[2] = Low32(params.mb2_magic)

\* multiboot2_init called with a magic whose high 32 bits are all ones.
C4_Witness ==
  \E c \in Cores :
    /\ Called(c, "multiboot2_init")
    /\ params.mb2_magic = <<25225, 14039, 65535, 65535>>
    /\ params.mb2_info[4] # 0

\* set_current_core_tss ran on core c: both of its writes are done.
Configured(c) == Called(c, "set_rsp") /\ Called(c, "set_ist")

\* The Task-Segment of core c holds what configure(S, 0, 0) writes, S read from head_stack_start.
TssConfigured(c) ==
  /\ tss[c].rsp[1] = head_stack_start[c]
  /\ tss[c].ist[1] = Zero64

(***************************************************************************)
(* C5: once set_current_core_tss(S, 0) has run on core c, with S the value *)
(* early_setup_arch read from head_stack_start, the Task-Segment of core c *)
(* has ring-0 stack pointer S and Interrupt Stack Table slot 0 equal to 0. *)
(***************************************************************************)
C5_TssConfigured ==
  \A c \in Cores : Configured(c) => TssConfigured(c)

\* Configured over a segment that held other values: the untouched slots still hold them.
C5_Witness ==
  \E c \in Cores :
    /\ Configured(c)
    /\ tss[c].rsp[1] = <<32768, 16, 65535, 65535>>
    /\ tss[c].rsp[2] # Zero64 /\ tss[c].ist[2] # Zero64

(***************************************************************************)
(* C6: on every core both Task-Segment writes come before load_tr and      *)
(* load_tr before arch_trap_init; whenever arch_trap_init is about to be   *)
(* called or has been called, the task register of the core holds the      *)
(* core's own Task-Segment, and that segment is configured.                *)
(***************************************************************************)
C6_TssBeforeTrap ==
  \A c \in Cores :
    /\ Before(c, "set_rsp", "load_tr")
    /\ Before(c, "set_ist", "load_tr")
    /\ Before(c, "load_tr", "arch_trap_init")
    /\ (pc[c] = "e_arch_trap_init" \/ Called(c, "arch_trap_init")) =>
         tr[c] = Some(c) /\ TssConfigured(c)
    /\ pc[c] = "e_load_tr" => Configured(c)

\* Two cores have both started trap installation.
C6_Witness ==
  \E c, d \in Cores :
    c # d /\ Called(c, "arch_trap_init") /\ Called(d, "arch_trap_init")

\* The calls of the stages after early_setup_arch.
LaterStageOps ==
  {"hpet_init", "hpet_enable", "init_acpi_pm_clocksource", "tsc_init"}

\* arch_trap_init failed on core c: what C7 says of it, but for the text of the diagnostic.
TrapFailureHalts(c) ==
  /\ pc[c] = "halted"
  /\ ~Returned(c, "early_setup_arch")
  /\ ~Returned(c, "setup_arch") /\ ~Returned(c, "setup_arch_post")
  /\ \A op \in LaterStageOps : ~Called(c, op)
  /\ gdtr[c] # None /\ idtr[c] # None
  /\ tr[c] = Some(c) /\ TssConfigured(c)

(***************************************************************************)
(* C7 as stated: when arch_trap_init returns failure the core halts with   *)
(* the diagnostic "trap initialization failed", early_setup_arch does not  *)
(* return, no later stage runs, and the Task-Segment is configured and the *)
(* task register loaded.                                                   *)
(***************************************************************************)
C7_TrapFailureNamed ==
  \A c \in Cores :
    Got(c, "arch_trap_init", "Err") =>
      TrapFailureHalts(c) /\ diag[c] = "trap initialization failed"

(***************************************************************************)
(* C7 amended: the same, the diagnostic being "arch_trap_init failed".     *)
(***************************************************************************)
C7_TrapFailureHalts ==
  \A c \in Cores :
    Got(c, "arch_trap_init", "Err") =>
      TrapFailureHalts(c) /\ diag[c] = "arch_trap_init failed"

\* A core halted on the failure of arch_trap_init.
C7_Witness ==
  \E c \in Cores : Got(c, "arch_trap_init", "Err") /\ pc[c] = "halted"

\* hpet_enable succeeded: the HPET is the clock source of the run.
HpetActive(c) == Got(c, "hpet_enable", "Ok")

\* init_acpi_pm_clocksource succeeded: the ACPI PM timer is the clock source of the run.
AcpiPmActive(c) == Got(c, "init_acpi_pm_clocksource", "Ok")

\* The primary clock source of the run of setup_arch_post on core c.
ClockSource(c) ==
  {src \in {"HPET", "ACPI_PM"} :
     \/ src = "HPET" /\ HpetActive(c)
     \/ src = "ACPI_PM" /\ AcpiPmActive(c)}

(***************************************************************************)
(* C8: a run of setup_arch_post that returned has exactly one of HPET and  *)
(* ACPI PM timer as its clock source; no run calls both hpet_enable and    *)
(* init_acpi_pm_clocksource; init_acpi_pm_clocksource is called only after *)
(* hpet_init failed, hpet_enable only after it succeeded.                  *)
(***************************************************************************)
C8_ExactlyOneSource ==
  \A c \in Cores :
    /\ Returned(c, "setup_arch_post") => Cardinality(ClockSource(c)) = 1
    /\ ~(Called(c, "hpet_enable") /\ Called(c, "init_acpi_pm_clocksource"))
    /\ (pc[c] = "p_init_acpi_pm_clocksource"
          \/ Called(c, "init_acpi_pm_clocksource")) =>
         Got(c, "hpet_init", "Err")
    /\ Called(c, "hpet_enable") => Got(c, "hpet_init", "Ok")

\* A run that returned on the ACPI PM timer beside a run that returned on the HPET.
C8_Witness ==
  \E c, d \in Cores :
    /\ Returned(c, "setup_arch_post") /\ ClockSource(c) = {"ACPI_PM"}
    /\ Returned(d, "setup_arch_post") /\ ClockSource(d) = {"HPET"}

\* Scenario A: HPET found and enabled, TSC calibrated.
OutcomeHpet(c) ==
  /\ Got(c, "hpet_init", "Ok") /\ Got(c, "hpet_enable", "Ok")
  /\ Got(c, "tsc_init", "Ok")

\* Scenario B: no HPET, ACPI PM timer initialised, TSC calibrated.
OutcomeAcpiPm(c) ==
  /\ Got(c, "hpet_init", "Err") /\ Got(c, "init_acpi_pm_clocksource", "Ok")
  /\ Got(c, "tsc_init", "Ok")

\* A collaborator of setup_arch_post returned failure on core c, hpet_init apart.
PostFailure(c) ==
  \/ Got(c, "hpet_enable", "Err")
  \/ Got(c, "init_acpi_pm_clocksource", "Err")
  \/ Got(c, "tsc_init", "Err")

(***************************************************************************)
(* C9: setup_arch_post returns exactly in the two success scenarios: with  *)
(* hpet_init, hpet_enable and TSC init succeeding it returns Ok with clock *)
(* source HPET; with hpet_init failing, init_acpi_pm_clocksource and TSC   *)
(* init succeeding it returns Ok with clock source ACPI PM timer; any      *)
(* other combination of outcomes ends halted and never returns.            *)
(***************************************************************************)
C9_TimerSelectionTotal ==
  \A c \in Cores :
    /\ OutcomeHpet(c) =>
         /\ pc[c] \in {"p_return", "idle"}
         /\ ClockSource(c) = {"HPET"}
    /\ OutcomeAcpiPm(c) =>
         /\ pc[c] \in {"p_return", "idle"}
         /\ ClockSource(c) = {"ACPI_PM"}
    /\ pc[c] = "idle" => Returned(c, "setup_arch_post")
    /\ Returned(c, "setup_arch_post") =>
         /\ pc[c] = "idle"
         /\ OutcomeHpet(c) \/ OutcomeAcpiPm(c)
         /\ ~(OutcomeHpet(c) /\ OutcomeAcpiPm(c))
    /\ PostFailure(c) =>
         /\ pc[c] = "halted"
         /\ ~Returned(c, "setup_arch_post")
         /\ ~OutcomeHpet(c) /\ ~OutcomeAcpiPm(c)

\* Both success scenarios returned, and a run with a failure halted.
C9_Witness ==
  \E c, d \in Cores :
    /\ Returned(c, "setup_arch_post") /\ OutcomeHpet(c)
    /\ \/ Returned(d, "setup_arch_post") /\ OutcomeAcpiPm(d)
       \/ PostFailure(d) /\ pc[d] = "halted"

\* hpet_init, then init_acpi_pm_clocksource failed on core c.
AcpiPmFailed(c) ==
  Got(c, "hpet_init", "Err") /\ Got(c, "init_acpi_pm_clocksource", "Err")

\* What C10 says of such a run, but for the text of the diagnostic.
AcpiPmFailureHalts(c) ==
  /\ pc[c] = "halted"
  /\ ~Called(c, "tsc_init")
  /\ ~Called(c, "hpet_enable")
  /\ ~Returned(c, "setup_arch_post")

(***************************************************************************)
(* C10 as stated: when hpet_init fails and init_acpi_pm_clocksource then   *)
(* fails, the core halts with the diagnostic "acpi_pm_timer init failed",  *)
(* TSCManager::init is never called and setup_arch_post never returns.     *)
(***************************************************************************)
C10_AcpiPmFailureNamed ==
  \A c \in Cores :
    AcpiPmFailed(c) =>
      AcpiPmFailureHalts(c) /\ diag[c] = "acpi_pm_timer init failed"

(***************************************************************************)
(* C10 amended: the same, the diagnostic being "acpi_pm_timer inits        *)
(* failed".                                                                *)
(***************************************************************************)
C10_AcpiPmFailureHalts ==
  \A c \in Cores :
    AcpiPmFailed(c) =>
      AcpiPmFailureHalts(c) /\ diag[c] = "acpi_pm_timer inits failed"

\* A core halted on the failure of the ACPI PM timer after the HPET was not found.
C10_Witness ==
  \E c \in Cores : AcpiPmFailed(c) /\ pc[c] = "halted"

\* hpet_init succeeded and hpet_enable then failed on core c.
HpetEnableFailed(c) ==
  Got(c, "hpet_init", "Ok") /\ Got(c, "hpet_enable", "Err")

(***************************************************************************)
(* C11: when hpet_init succeeds and hpet_enable fails the core halts at    *)
(* once, with the diagnostic of the enable step: neither                   *)
(* init_acpi_pm_clocksource nor TSCManager::init is called, and            *)
(* setup_arch_post does not return.                                        *)
(***************************************************************************)
C11_HpetEnableFailureHalts ==
  \A c \in Cores :
    HpetEnableFailed(c) =>
      /\ pc[c] = "halted"
      /\ diag[c] = "hpet enable failed"
      /\ trace[c][Len(trace[c])].op = "hpet_enable"
      /\ ~Called(c, "init_acpi_pm_clocksource")
      /\ ~Called(c, "tsc_init")
      /\ ~Returned(c, "setup_arch_post")

\* A core halted on the failure of hpet_enable.
C11_Witness ==
  \E c \in Cores : HpetEnableFailed(c) /\ pc[c] = "halted"

(***************************************************************************)
(* C12: TSCManager::init is the next call of every run of setup_arch_post  *)
(* whose primary clock source was activated, HPET or ACPI PM timer alike,  *)
(* and it is called only with a primary source active; when it fails the   *)
(* core halts and setup_arch_post does not return.                         *)
(***************************************************************************)
C12_TscAfterPrimary ==
  \A c \in Cores :
    /\ ClockSource(c) # {} => pc[c] = "p_tsc_init" \/ Called(c, "tsc_init")
    /\ (pc[c] = "p_tsc_init" \/ Called(c, "tsc_init")) =>
         Cardinality(ClockSource(c)) = 1
    /\ Before(c, "hpet_init", "tsc_init")
    /\ Returned(c, "setup_arch_post") => Got(c, "tsc_init", "Ok")
    /\ Got(c, "tsc_init", "Err") =>
         /\ pc[c] = "halted"
         /\ diag[c] = "tsc init failed"
         /\ ~Returned(c, "setup_arch_post")

\* TSC calibrated after the HPET on one core and after the ACPI PM timer on another,
\* or failing on the other.
C12_Witness ==
  \E c, d \in Cores :
    /\ ClockSource(c) = {"HPET"} /\ Got(c, "tsc_init", "Ok")
    /\ ClockSource(d) = {"ACPI_PM"} /\ Got(d, "tsc_init", "Err")
    /\ pc[d] = "halted"

(***************************************************************************)
(* The translate-construct-load sequence performed a second time           *)
(***************************************************************************)
\* How many times the sequence may be performed again.
MaxReloads == 1

\* The statements of the sequence: lines 47 to 62 of kernel_main.
LoadSequence ==
  {"k_gdt_vaddr", "k_idt_vaddr", "k_gdtp", "k_idtp", "k_lgdt", "k_lidt"}

\* Both tables are loaded; the sequence starts again with the same
\* physical bases and the same byte sizes.
kernel_main_reload(c) ==
  /\ pc[c] = "k_multiboot2_init"
  /\ Calls(c, "lgdt") <= MaxReloads
  /\ Calls(c, "lidt") = Calls(c, "lgdt")
  /\ Goto(c, kernel_main_body[1])
  /\ UNCHANGED <<env, hw, k_locals, e_locals, trace>>

NextReload == Next \/ \E c \in Cores : kernel_main_reload(c)

\* The boot core alone, allowed to perform the sequence again.
SpecReload == InitBSP /\ [][NextReload]_vars

\* Core c is performing the sequence again.
Reloading(c) ==
  /\ pc[c] \in LoadSequence
  /\ Calls(c, "lgdt") >= 1
  /\ Calls(c, "lidt") = Calls(c, "lgdt")

IdtTranslationHalt(c) ==
  KernelMainTranslated(c, IDT_Table, "None") /\ pc[c] = "halted"

(***************************************************************************)
(* C14 as stated: the translation of the IDT region is attempted only with *)
(* the GDT loaded, so a halt on its failure finds the GDT loaded.          *)
(***************************************************************************)
C14_GdtLoadedBeforeIdtTranslation ==
  \A c \in Cores :
    /\ pc[c] = "k_idt_vaddr" => gdtr[c] # None
    /\ KernelMainTranslated(c, IDT_Table, "Some") => gdtr[c] # None
    /\ IdtTranslationHalt(c) => gdtr[c] # None

(***************************************************************************)
(* C14 amended: kernel_main translates the GDT region, then the IDT        *)
(* region, and only then loads the GDT and the IDT: the IDT translation is *)
(* attempted after the GDT translation succeeded and before the GDT is     *)
(* loaded, so a halt on its failure finds neither table loaded.            *)
(***************************************************************************)
C14_TranslationsBeforeLoads ==
  \A c \in Cores :
    /\ pc[c] = "k_idt_vaddr" =>
         /\ KernelMainTranslated(c, GDT_Table, "Some")
         /\ gdtr[c] = None /\ ~Called(c, "lgdt")
    /\ Called(c, "lgdt") =>
         /\ KernelMainTranslated(c, GDT_Table, "Some")
         /\ KernelMainTranslated(c, IDT_Table, "Some")
    /\ Before(c, "lgdt", "lidt")
    /\ KernelMainTranslated(c, IDT_Table, "None") =>
         /\ pc[c] = "halted"
         /\ gdtr[c] = None /\ idtr[c] = None
         /\ ~Called(c, "lgdt") /\ ~Called(c, "lidt")

\* A core halted on the failed IDT translation, the GDT translated but not loaded.
C14_Witness ==
  \E c \in Cores :
    /\ IdtTranslationHalt(c)
    /\ KernelMainTranslated(c, GDT_Table, "Some")
    /\ gdtr[c] = None

(***************************************************************************)
(* C15: when multiboot2_init has returned failure, kernel_main has         *)
(* surfaced it by the time it goes on: a diagnostic is out before          *)
(* start_kernel is called, and start_kernel is not entered without one.    *)
(***************************************************************************)
C15_BootInfoFailureReported ==
  \A c \in Cores :
    Got(c, "multiboot2_init", "false") =>
      /\ pc[c] = "k_start_kernel" => diag[c] # ""
      /\ \A i \in DOMAIN trace[c] :
           trace[c][i].op = "start_kernel" => diag[c] # ""

\* The steps of the bring-up sequence C16 names.
BringUpOps ==
  {"lgdt", "lidt", "multiboot2_init", "load_tr", "arch_trap_init",
   "hpet_init", "hpet_enable", "init_acpi_pm_clocksource", "tsc_init"}

\* The i-th call of core c returned failure.
Failed(c, i) == trace[c][i].ret \in {"Err", "false", "None"}

OwnValuesOnly(c) ==
  LET v == tss[c].rsp[2] IN
    tss[c] = [rsp |-> <<head_stack_start[c], v, v>>,
              ist |-> <<Zero64, v, v, v, v, v, v>>]

\* A step changes the Task-Segment of core c only if core c takes it inside
\* set_current_core_tss, and then it changes no other segment.
OwnerWrites(c) ==
  tss'[c] # tss[c] =>
    /\ pc[c] \in {"t_set_rsp", "t_set_ist"}
    /\ pc'[c] # pc[c]
    /\ \A d \in Cores \ {c} : tss'[d] = tss[d] /\ pc'[d] = pc[d]

(***************************************************************************)
(* C17: under every interleaving of the cores, a Task-Segment is written   *)
(* only by steps of its own core inside set_current_core_tss, every        *)
(* set_rsp and set_ist of a core addresses that core's segment, and once   *)
(* all cores have configured theirs each segment holds exactly the values  *)
(* its own core wrote.                                                     *)
(***************************************************************************)
C17_OwnSegmentOnly ==
  /\ [][\A c \in Cores : OwnerWrites(c)]_vars
  /\ [](\A c \in Cores :
          /\ \A i \in DOMAIN trace[c] :
               trace[c][i].op \in {"set_rsp", "set_ist"} =>
                 trace[c][i].arg[1] = c
          /\ (\A d \in Cores : pc[d] = "parked" \/ Configured(d)) =>
               (Configured(c) => OwnValuesOnly(c)))

\* Every core has configured its segment, each with a stack of its own.
C17_Witness ==
  /\ \A c \in Cores : Configured(c) /\ tss[c].rsp[1] = SmpStack(c)
  /\ \E c, d \in Cores : tss[c].rsp[1] # tss[d].rsp[1]

\* Both translations of kernel_main succeeded on core c.
BothTranslated(c) ==
  /\ KernelMainTranslated(c, GDT_Table, "Some")
  /\ KernelMainTranslated(c, IDT_Table, "Some")

\* kernel_main halted on core c: a halt with start_kernel never called.
KernelMainHalted(c) == pc[c] = "halted" /\ ~Called(c, "start_kernel")

\* The build checks overflow and a byte size has its low 16 bits zero:
\* size as u16 - 1 panics.
LimitPanics ==
  /\ overflow_checks
  /\ params.bsp_gdt_size[1] = 0 \/ params.bsp_idt_size[1] = 0

\* What C18 says and the code does whatever the sizes: start_kernel is called at
\* most once, it is the next call after multiboot2_init returned, true or false,
\* and kernel_main does not return.
StartKernelOnce(c) ==
  /\ Calls(c, "start_kernel") <= 1
  /\ \A ret \in {"true", "false"} :
       Got(c, "multiboot2_init", ret) =>
         /\ ~KernelMainHalted(c)
         /\ pc[c] = "k_start_kernel" \/ Calls(c, "start_kernel") = 1
  /\ ~Returned(c, "kernel_main")
  /\ Called(c, "start_kernel") => BothTranslated(c)

(***************************************************************************)
(* C18 as stated: whenever both translations succeeded kernel_main goes on *)
(* to start_kernel, exactly once, whether multiboot2_init returned true or *)
(* false: it does not halt.                                                *)
(***************************************************************************)
C18_StartKernelWheneverTranslated ==
  \A c \in Cores :
    /\ StartKernelOnce(c)
    /\ BothTranslated(c) => ~KernelMainHalted(c)

(***************************************************************************)
(* C18 amended: the same, provided no limit computation panics: whenever   *)
(* both translations succeeded and neither byte size has its low 16 bits   *)
(* zero in a build with overflow checks, kernel_main goes on to            *)
(* start_kernel exactly once; with such a size it halts on the overflow of *)
(* size as u16 - 1, before either table is loaded.                         *)
(***************************************************************************)
C18_StartKernelUnlessOverflow ==
  \A c \in Cores :
    /\ StartKernelOnce(c)
    /\ (BothTranslated(c) /\ ~LimitPanics) => ~KernelMainHalted(c)
    /\ (BothTranslated(c) /\ KernelMainHalted(c)) =>
         /\ diag[c] = OverflowMsg
         /\ gdtr[c] = None /\ idtr[c] = None
    /\ (BothTranslated(c) /\ LimitPanics) => ~Called(c, "start_kernel")

\* start_kernel entered after a false on one core and after a true on another.
C18_Witness ==
  \E c, d \in Cores :
    /\ Got(c, "multiboot2_init", "false") /\ Calls(c, "start_kernel") = 1
    /\ Got(d, "multiboot2_init", "true") /\ Calls(d, "start_kernel") = 1

\* The i-th call of core c is a translation inside early_setup_arch.
EarlyTranslation(c, i) ==
  /\ trace[c][i].op = "phys_2_virt"
  /\ \E j \in 1..(i - 1) : trace[c][j].op = "start_kernel"

\* A translation of early_setup_arch failed on core c.
EarlyTranslationFailed(c) ==
  \E i \in DOMAIN trace[c] : EarlyTranslation(c, i) /\ trace[c][i].ret = "None"

\* The operations of early_setup_arch that follow its two translations.
AfterEarlyTranslationOps == {"set_rsp", "set_ist", "load_tr", "arch_trap_init"}

\* The Task-Segment of core c is as it was at construction.
TssUnmodified(c) == \E v \in TssInitVals : tss[c] = NewTss(v)

(***************************************************************************)
(* C19: the addresses early_setup_arch translates again are used for       *)
(* nothing but the log: the registers keep the pointers kernel_main loaded.*)
(* When one of these translations fails the core is halted with no         *)
(* Task-Segment write, no load_tr and no arch_trap_init, the task register *)
(* is not loaded and the Task-Segment of the core is unmodified.           *)
(***************************************************************************)
C19_EarlyTranslationFailureHalts ==
  \A c \in Cores :
    /\ Called(c, "start_kernel") => gdtr[c] = gdtp[c] /\ idtr[c] = idtp[c]
    /\ EarlyTranslationFailed(c) =>
         /\ pc[c] = "halted"
         /\ diag[c] = UnwrapNoneMsg
         /\ \A op \in AfterEarlyTranslationOps : ~Called(c, op)
         /\ tr[c] = None
         /\ frame[c] = None
         /\ TssUnmodified(c)
         /\ ~Returned(c, "early_setup_arch")

\* One core halted on a failed re-translation of the IDT base, after the
\* re-translation of the GDT base succeeded, while another configured its segment.
C19_Witness ==
  \E c, d \in Cores :
    /\ EarlyTranslationFailed(c) /\ pc[c] = "halted"
    /\ \E i \in DOMAIN trace[c] :
         /\ EarlyTranslation(c, i)
         /\ trace[c][i].arg = <<GDT_Table>> /\ trace[c][i].ret = "Some"
    /\ Called(d, "set_ist")

\* The stage hooks.
Hooks == {"early_setup_arch", "setup_arch", "setup_arch_post"}

\* Every value a stage hook returned on core c is Ok.
OnlyOkReturned(c) ==
  \A i \in DOMAIN trace[c] : trace[c][i].op = "return" => trace[c][i].ret = "Ok"

\* The run of core c through the hooks: each one returned, is still running, or
\* the core is halted with a diagnostic.
ReturnedOrHalted(c) ==
  /\ pc[c] = "idle" => \A h \in Hooks : Returned(c, h)
  /\ pc[c] = "halted" => diag[c] # "" /\ ~Returned(c, "setup_arch_post")
  /\ Returned(c, "early_setup_arch") =>
       Returned(c, "setup_arch") \/ pc[c] = HookEntry("setup_arch")

\* Nothing is called between the return of early_setup_arch and that of setup_arch.
SetupArchCallsNothing(c) ==
  \A i \in DOMAIN trace[c] :
    (trace[c][i].op = "return" /\ trace[c][i].arg = <<"setup_arch">>) =>
      /\ i > 1
      /\ trace[c][i - 1].op = "return"
      /\ trace[c][i - 1].arg = <<"early_setup_arch">>

\* A step of setup_arch on core c: it returns Ok to generic startup, which goes on
\* to setup_arch_post, and nothing else changes.
SetupArchStep(c) ==
  (pc[c] = HookEntry("setup_arch") /\ pc'[c] # pc[c]) =>
    /\ pc'[c] = HookEntry("setup_arch_post")
    /\ trace'[c] =
         Append(trace[c], [op |-> "return", arg |-> <<"setup_arch">>, ret |-> "Ok"])
    /\ UNCHANGED <<env, hw, k_locals, e_locals, diag>>

(***************************************************************************)
(* C20: no stage hook ever returns an error: every value returned is Ok,   *)
(* and a core is past a hook only by its Ok or is halted with a            *)
(* diagnostic; setup_arch returns Ok whenever it is called, calls no       *)
(* collaborator and changes no register, Task-Segment or local.            *)
(***************************************************************************)
C20_HooksNeverErr ==
  /\ [](\A c \in Cores :
          OnlyOkReturned(c) /\ ReturnedOrHalted(c) /\ SetupArchCallsNothing(c))
  /\ [][\A c \in Cores : SetupArchStep(c)]_vars

\* One core is through all three hooks while another halted inside
\* setup_arch_post, after setup_arch had returned.
C20_Witness ==
  \E c, d \in Cores :
    /\ pc[c] = "idle" /\ \A h \in Hooks : Returned(c, h)
    /\ pc[d] = "halted" /\ Returned(d, "setup_arch")

====
